---- MODULE Spec2Model ----
(***************************************************************************)
(* MobileNetV2 graph builder (tensorflowcv/models/mobilenetv2.py).         *)
(*                                                                         *)
(* The builder is a sequential program: a factory (get_mobilenetv2 or the  *)
(* MobileNetV2 constructor) creates a net object, and MobileNetV2.__call__ *)
(* emits framework layers one block at a time.  The model keeps the net    *)
(* object, the local variables of __call__ (x, in_channels, the loop       *)
(* position) and the list of layer operations emitted so far.              *)
(*                                                                         *)
(* Conventions.                                                            *)
(*   - A Python optional value is a tuple: <<>> is None, <<v>> is v.       *)
(*   - A tensor is its shape: <<n, c, h, w>> (channels first), <<n, k>>    *)
(*     once flattened.                                                     *)
(*   - A float width scale is the pair <<num, den>>; the scales used are   *)
(*     dyadic, so c * scale is exact in binary floating point and int()    *)
(*     truncates the exact quotient.                                       *)
(***************************************************************************)
EXTENDS Integers, Sequences, FiniteSets, TLC

VARIABLES
    pc,           \* position of the program
    call,         \* how the net was created: [fn, width_scale, model_name, pretrained]
    net,          \* the MobileNetV2 object, <<>> before construction
    downloads,    \* the calls made to download_state_dict, in order
    x0,           \* the input tensor handed to __call__
    x,            \* local x of __call__: the current tensor
    in_channels,  \* local in_channels of __call__
    u,            \* number of loop iterations of __call__ completed
    ops           \* the layer operations emitted so far, in order

vars == <<pc, call, net, downloads, x0, x, in_channels, u, ops>>

None == <<>>

----------------------------------------------------------------------------
(* Bounds of the model. *)

\* Batch sizes 1..MaxBatch are fed to the built graph.
MaxBatch == 2

\* Spatial sizes fed under SpecSize are the two ends of every class
\* ceil(H / 32) = a, a in 1..MaxBlocks.
MaxBlocks == 8

\* Channel tables handed directly to the constructor under SpecTable have
\* at most MaxStages stages of at most MaxUnits units.
MaxStages == 2
MaxUnits == 2

----------------------------------------------------------------------------
(* Program constants. *)

InitBlockChannels == 32
FinalBlockChannels == 1280
Layers == <<1, 2, 3, 4, 3, 3, 1>>
Downsample == <<0, 1, 1, 1, 0, 1, 0>>
ChannelsPerLayers == <<16, 24, 32, 64, 96, 160, 320>>

ExpansionFactor == 6
PoolSize == 7

DefaultInChannels == 3
DefaultInSize == <<224, 224>>
DefaultClasses == 1000
DefaultRoot == "~/.tensorflow/models"

----------------------------------------------------------------------------
(* Layers of the external framework and of .common *)

\* Output extent of a convolution over an explicitly padded input.
ConvExtent(h, kernel_size, strides, padding) ==
    ((h + 2 * padding - kernel_size) \div strides) + 1

\* .common.conv2d: one bias-free (grouped) convolution.  The record keeps
\* the arguments, the tensor received (x), the tensor returned (y) and the
\* number of trainable weights created.
conv2d(xx, inc, outc, kernel_size, strides, padding, groups, name) ==
    [op |-> "conv2d", name |-> name,
     in_channels |-> inc, out_channels |-> outc,
     kernel_size |-> kernel_size, strides |-> strides,
     padding |-> padding, groups |-> groups,
     x |-> xx,
     y |-> <<xx[1], outc,
             ConvExtent(xx[3], kernel_size, strides, padding),
             ConvExtent(xx[4], kernel_size, strides, padding)>>,
     weights |-> outc * (inc \div groups) * kernel_size * kernel_size]

\* .common.batchnorm: per-channel scale and offset, both trainable.
batchnorm(xx, name) ==
    [op |-> "batchnorm", name |-> name, x |-> xx, y |-> xx,
     weights |-> 2 * xx[2]]

\* tf.nn.relu6
relu6(xx, name) ==
    [op |-> "relu6", name |-> name, x |-> xx, y |-> xx, weights |-> 0]

\* x + identity
add(xx, identity, name) ==
    [op |-> "add", name |-> name, x |-> xx, identity |-> identity,
     y |-> xx, weights |-> 0]

\* tf.layers.average_pooling2d, 'valid' padding, channels first
average_pooling2d(xx, pool_size, strides, name) ==
    [op |-> "average_pooling2d", name |-> name,
     pool_size |-> pool_size, strides |-> strides,
     x |-> xx,
     y |-> <<xx[1], xx[2],
             ((xx[3] - pool_size) \div strides) + 1,
             ((xx[4] - pool_size) \div strides) + 1>>,
     weights |-> 0]

\* tf.layers.flatten
flatten(xx, name) ==
    [op |-> "flatten", name |-> name, x |-> xx,
     y |-> <<xx[1], xx[2] * xx[3] * xx[4]>>, weights |-> 0]

\* The tensor a block returns: the output of its last layer.
Out(block) == block[Len(block)].y

----------------------------------------------------------------------------
(* Blocks *)

mobnet_conv(xx, inc, outc, kernel_size, strides, padding, groups, activate, name) ==
    LET conv == conv2d(xx, inc, outc, kernel_size, strides, padding, groups,
                       name \o "/conv")
        bn   == batchnorm(conv.y, name \o "/bn")
    IN  IF activate
        THEN <<conv, bn, relu6(bn.y, name \o "/activ")>>
        ELSE <<conv, bn>>

mobnet_conv1x1(xx, inc, outc, activate, name) ==
    mobnet_conv(xx, inc, outc, 1, 1, 0, 1, activate, name)

\* Mutant: the 3x3 block built as a full convolution (groups left at 1).
mobnet_dwconv3x3_full(xx, inc, outc, strides, activate, name) ==
    mobnet_conv(xx, inc, outc, 3, strides, 1, 1, activate, name)

mobnet_dwconv3x3(xx, inc, outc, strides, activate, name) ==
    mobnet_conv(xx, inc, outc, 3, strides, 1, outc, activate, name)

\* Mutant: the shortcut decided on the channel counts alone.
residual_any_stride(inc, outc, strides) == (inc = outc)

residual(inc, outc, strides) == (inc = outc) /\ (strides = 1)

mid_channels(inc, expansion) ==
    IF expansion THEN inc * ExpansionFactor ELSE inc

linear_bottleneck(xx, inc, outc, strides, expansion, name) ==
    LET mid   == mid_channels(inc, expansion)
        conv1 == mobnet_conv1x1(xx, inc, mid, TRUE, name \o "/conv1")
        conv2 == mobnet_dwconv3x3(Out(conv1), mid, mid, strides, TRUE,
                                  name \o "/conv2")
        conv3 == mobnet_conv1x1(Out(conv2), mid, outc, FALSE,
                                name \o "/conv3")
        body  == conv1 \o conv2 \o conv3
    IN  IF residual(inc, outc, strides)
        THEN body \o <<add(Out(conv3), xx, name \o "/add")>>
        ELSE body

----------------------------------------------------------------------------
(* MobileNetV2: the object and the loop of __call__ *)

\* MobileNetV2.__init__: the fields are stored as given.
MobileNetV2(channels, init_block_channels, final_block_channels, inc, in_size, classes) ==
    [channels |-> channels,
     init_block_channels |-> init_block_channels,
     final_block_channels |-> final_block_channels,
     in_channels |-> inc,
     in_size |-> in_size,
     classes |-> classes]

\* The (i, j) pairs of the nested enumerate loops, 0-based, in loop order.
RECURSIVE LoopOrder(_, _)
LoopOrder(channels, i) ==
    IF i > Len(channels) THEN <<>>
    ELSE [j \in 1..Len(channels[i]) |-> <<i - 1, j - 1>>]
         \o LoopOrder(channels, i + 1)

\* Mutant: the first unit of the first stage strided like the others.
unit_strides_every_stage(i, j) == IF j = 0 THEN 2 ELSE 1

unit_strides(i, j) == IF (j = 0) /\ (i # 0) THEN 2 ELSE 1

\* Mutant: the first unit expanded like the others.
unit_expansion_always(i, j) == TRUE

unit_expansion(i, j) == (i # 0) \/ (j # 0)

\* Mutant: in_channels not updated at the end of the loop body.
next_in_channels_stale(inc, outc) == inc

\* The in_channels local after one loop iteration.
next_in_channels(inc, outc) == outc

\* Mutant: the pooling window derived from the stored in_size.
final_pool_size_from_in_size(n) == n.in_size[1] \div 32

\* pool_size and strides of features/final_pool
final_pool_size(n) == PoolSize

\* Mutant: the init block built with stride 1.
init_block_stride1(xx, n) ==
    mobnet_conv(xx, n.in_channels, n.init_block_channels, 3, 1, 1, 1, TRUE,
                "features/init_block")

\* features/init_block
init_block(xx, n) ==
    mobnet_conv(xx, n.in_channels, n.init_block_channels, 3, 2, 1, 1, TRUE,
                "features/init_block")

\* features/stage{i+1}/unit{j+1}
unit(xx, inc, n, i, j) ==
    linear_bottleneck(xx, inc, n.channels[i + 1][j + 1],
                      unit_strides(i, j), unit_expansion(i, j),
                      "features/stage" \o ToString(i + 1) \o "/unit" \o ToString(j + 1))

\* features/final_block
final_block(xx, inc, n) ==
    mobnet_conv1x1(xx, inc, n.final_block_channels, TRUE,
                   "features/final_block")

\* output: conv2d with its default strides, padding and groups
output(xx, inc, n) ==
    conv2d(xx, inc, n.classes, 1, 1, 0, 1, "output")

----------------------------------------------------------------------------
(* get_mobilenetv2 *)

Repeat(c, k) == [m \in 1..k |-> c]

\* zip(channels_per_layers, layers, downsample)
Zip3(a, b, c) == [k \in 1..Len(a) |-> <<a[k], b[k], c[k]>>]

\* Mutant: every group opens a stage, whatever its downsample flag.
fold_step_always_new(acc, y) == acc \o <<Repeat(y[1], y[2])>>

\* The lambda folded over the table: y = (channels, layers, downsample).
fold_step(acc, y) ==
    IF y[3] # 0
    THEN acc \o <<Repeat(y[1], y[2])>>
    ELSE SubSeq(acc, 1, Len(acc) - 1)
         \o <<acc[Len(acc)] \o Repeat(y[1], y[2])>>

\* functools.reduce(f, seq, init)
RECURSIVE reduce(_, _)
reduce(seq, acc) ==
    IF seq = <<>> THEN acc
    ELSE reduce(Tail(seq), fold_step(acc, Head(seq)))

\* int(c * width_scale)
scale(c, width_scale) == (c * width_scale[1]) \div width_scale[2]

scaled_channels(channels, width_scale) ==
    IF width_scale[1] # width_scale[2]
    THEN [i \in 1..Len(channels) |->
            [j \in 1..Len(channels[i]) |-> scale(channels[i][j], width_scale)]]
    ELSE channels

scaled_init_block_channels(width_scale) ==
    IF width_scale[1] # width_scale[2]
    THEN scale(InitBlockChannels, width_scale)
    ELSE InitBlockChannels

\* Mutant: the final block scaled like the other blocks.
scaled_final_block_channels_always(width_scale) ==
    IF width_scale[1] # width_scale[2]
    THEN scale(FinalBlockChannels, width_scale)
    ELSE FinalBlockChannels

scaled_final_block_channels(width_scale) ==
    IF width_scale[1] # width_scale[2] /\ width_scale[1] > width_scale[2]
    THEN scale(FinalBlockChannels, width_scale)
    ELSE FinalBlockChannels

\* Mutant: only None rejected, the empty name let through.
no_model_name_none_only(model_name) == (model_name = None)

\* (model_name is None) or (not model_name)
no_model_name(model_name) == (model_name = None) \/ (model_name = <<"">>)

\* .model_store.download_state_dict: the (state_dict, file_path) pair of the
\* named model in the local store.
download_state_dict(model_name, root) ==
    <<[model_name |-> model_name[1]],
      [root |-> root, model_name |-> model_name[1]]>>

get_mobilenetv2(fn, width_scale, model_name, pretrained, root, kwargs) ==
    LET channels == scaled_channels(
                        reduce(Zip3(ChannelsPerLayers, Layers, Downsample), <<<<>>>>),
                        width_scale)
        new == MobileNetV2(channels,
                           scaled_init_block_channels(width_scale),
                           scaled_final_block_channels(width_scale),
                           kwargs.in_channels, kwargs.in_size, kwargs.classes)
    IN  /\ pc = "start"
        /\ call' = [fn |-> fn, width_scale |-> width_scale,
                    model_name |-> model_name, pretrained |-> pretrained]
        /\ IF pretrained
           THEN IF no_model_name(model_name)
                THEN /\ pc' = "ValueError"
                     /\ net' = None
                     /\ downloads' = downloads
                ELSE LET got == download_state_dict(model_name, root)
                     IN  /\ pc' = "net"
                         /\ downloads' = Append(downloads,
                                [model_name |-> model_name, root |-> root])
                         /\ net' = <<[state_dict |-> <<got[1]>>,
                                      file_path |-> <<got[2]>>] @@ new>>
           ELSE /\ pc' = "net"
                /\ downloads' = downloads
                /\ net' = <<[state_dict |-> None, file_path |-> None] @@ new>>
        /\ UNCHANGED <<x0, x, in_channels, u, ops>>

\* Keyword arguments forwarded to the constructor.
KwArgs ==
    {[in_channels |-> c[1], in_size |-> s, classes |-> c[2]] :
        c \in {<<DefaultInChannels, DefaultClasses>>, <<1, 10>>},
        s \in {DefaultInSize, <<256, 256>>}}

mobilenetv2_w1(Pretrained, Kw) ==
    \E pretrained \in Pretrained, kwargs \in Kw :
        get_mobilenetv2("mobilenetv2_w1", <<1, 1>>, <<"mobilenetv2_w1">>,
                        pretrained, DefaultRoot, kwargs)

mobilenetv2_w3d4(Pretrained, Kw) ==
    \E pretrained \in Pretrained, kwargs \in Kw :
        get_mobilenetv2("mobilenetv2_w3d4", <<3, 4>>, <<"mobilenetv2_w3d4">>,
                        pretrained, DefaultRoot, kwargs)

mobilenetv2_wd2(Pretrained, Kw) ==
    \E pretrained \in Pretrained, kwargs \in Kw :
        get_mobilenetv2("mobilenetv2_wd2", <<1, 2>>, <<"mobilenetv2_wd2">>,
                        pretrained, DefaultRoot, kwargs)

mobilenetv2_wd4(Pretrained, Kw) ==
    \E pretrained \in Pretrained, kwargs \in Kw :
        get_mobilenetv2("mobilenetv2_wd4", <<1, 4>>, <<"mobilenetv2_wd4">>,
                        pretrained, DefaultRoot, kwargs)

\* Width scales and model names of direct calls of get_mobilenetv2.
WidthScales == {<<1, 16>>, <<1, 4>>, <<1, 2>>, <<3, 4>>, <<1, 1>>, <<5, 4>>}
ModelNames == {None, <<"">>, <<"my_model">>}

GetMobilenetv2 ==
    \E width_scale \in WidthScales, model_name \in ModelNames,
       pretrained \in BOOLEAN, kwargs \in KwArgs :
        get_mobilenetv2("get_mobilenetv2", width_scale, model_name,
                        pretrained, DefaultRoot, kwargs)

----------------------------------------------------------------------------
(* MobileNetV2.__call__, one block per step *)

TheNet == net[1]
Order == LoopOrder(TheNet.channels, 1)

\* The input has in_channels channels; the init block is emitted.
Call(Ns, Hs, Ws) ==
    \E n \in Ns, h \in Hs, w \in Ws :
        LET input == <<n, TheNet.in_channels, h, w>>
            block == init_block(input, TheNet)
        IN  /\ pc = "net"
            /\ pc' = "units"
            /\ x0' = input
            /\ x' = Out(block)
            /\ ops' = block
            /\ in_channels' = TheNet.init_block_channels
            /\ u' = 0
            /\ UNCHANGED <<call, net, downloads>>

Unit ==
    /\ pc = "units"
    /\ u < Len(Order)
    /\ LET i == Order[u + 1][1]
           j == Order[u + 1][2]
           block == unit(x, in_channels, TheNet, i, j)
       IN  /\ x' = Out(block)
           /\ ops' = ops \o block
           /\ in_channels' = next_in_channels(in_channels,
                                              TheNet.channels[i + 1][j + 1])
    /\ u' = u + 1
    /\ UNCHANGED <<pc, call, net, downloads, x0>>

FinalBlock ==
    /\ pc = "units"
    /\ u = Len(Order)
    /\ LET block == final_block(x, in_channels, TheNet)
       IN  /\ x' = Out(block)
           /\ ops' = ops \o block
    /\ in_channels' = TheNet.final_block_channels
    /\ pc' = "final_pool"
    /\ UNCHANGED <<call, net, downloads, x0, u>>

\* A window larger than the feature map is rejected by the framework.
FinalPool ==
    /\ pc = "final_pool"
    /\ LET size == final_pool_size(TheNet)
           pool == average_pooling2d(x, size, 1, "features/final_pool")
       IN  IF x[3] < size \/ x[4] < size
           THEN /\ pc' = "pool_error"
                /\ UNCHANGED <<x, ops>>
           ELSE /\ pc' = "output"
                /\ x' = pool.y
                /\ ops' = Append(ops, pool)
    /\ UNCHANGED <<call, net, downloads, x0, in_channels, u>>

Output ==
    /\ pc = "output"
    /\ LET conv == output(x, in_channels, TheNet)
       IN  /\ x' = conv.y
           /\ ops' = Append(ops, conv)
    /\ pc' = "flatten"
    /\ UNCHANGED <<call, net, downloads, x0, in_channels, u>>

Flatten ==
    /\ pc = "flatten"
    /\ LET f == flatten(x, "flatten")
       IN  /\ x' = f.y
           /\ ops' = Append(ops, f)
    /\ pc' = "done"
    /\ UNCHANGED <<call, net, downloads, x0, in_channels, u>>

----------------------------------------------------------------------------
(* Specifications *)

Init ==
    /\ pc = "start"
    /\ call = None
    /\ net = None
    /\ downloads = <<>>
    /\ x0 = None
    /\ x = None
    /\ in_channels = 0
    /\ u = 0
    /\ ops = <<>>

Batches == 1..MaxBatch

\* Spec: the factories, fed the documented 224x224 input and a 256x256 one.
MainSizes == {224, 256}

Next ==
    \/ mobilenetv2_w1(BOOLEAN, KwArgs)
    \/ mobilenetv2_w3d4(BOOLEAN, KwArgs)
    \/ mobilenetv2_wd2(BOOLEAN, KwArgs)
    \/ mobilenetv2_wd4(BOOLEAN, KwArgs)
    \/ GetMobilenetv2
    \/ Call(Batches, MainSizes, MainSizes)
    \/ Unit
    \/ FinalBlock
    \/ FinalPool
    \/ Output
    \/ Flatten

Spec == Init /\ [][Next]_vars

\* SpecSize: the named variants, fed every combination of the two ends of
\* each class ceil(H / 32) = a, a in 1..MaxBlocks (1 and 32, 33 and 64, ...).
SizeEnds == UNION {{32 * a - 31, 32 * a} : a \in 1..MaxBlocks}

\* The nets of SpecSize: not pretrained; the default arguments with the
\* default and a 256x256 in_size, and a one-channel, ten-class net.
SizeKwArgs ==
    {[in_channels |-> DefaultInChannels, in_size |-> DefaultInSize,
      classes |-> DefaultClasses],
     [in_channels |-> DefaultInChannels, in_size |-> <<256, 256>>,
      classes |-> DefaultClasses],
     [in_channels |-> 1, in_size |-> DefaultInSize, classes |-> 10]}

NextSize ==
    \/ mobilenetv2_w1({FALSE}, SizeKwArgs)
    \/ mobilenetv2_w3d4({FALSE}, SizeKwArgs)
    \/ mobilenetv2_wd2({FALSE}, SizeKwArgs)
    \/ mobilenetv2_wd4({FALSE}, SizeKwArgs)
    \/ Call({1}, SizeEnds, SizeEnds)
    \/ Unit
    \/ FinalBlock
    \/ FinalPool
    \/ Output
    \/ Flatten

SpecSize == Init /\ [][NextSize]_vars

\* SpecTable: the constructor called directly with any channel table of at
\* most MaxStages stages of at most MaxUnits units (a stage may be empty).
\* Two channel values give every pattern of equal and unequal neighbours.
\* The input is 28x56, which two strided stages still leave poolable.
Chans == {1, 2}
Stages == UNION {[1..k -> Chans] : k \in 0..MaxUnits}
Tables == UNION {[1..k -> Stages] : k \in 1..MaxStages}

NewMobileNetV2 ==
    \E channels \in Tables, init_block_channels \in Chans,
       final_block_channels \in {2}, inc \in {DefaultInChannels} :
        /\ pc = "start"
        /\ pc' = "net"
        /\ call' = [fn |-> "MobileNetV2", width_scale |-> <<1, 1>>,
                    model_name |-> None, pretrained |-> FALSE]
        /\ net' = <<MobileNetV2(channels, init_block_channels,
                                final_block_channels, inc, DefaultInSize, 10)>>
        /\ UNCHANGED <<downloads, x0, x, in_channels, u, ops>>

NextTable ==
    \/ NewMobileNetV2
    \/ Call({1}, {28}, {56})
    \/ Unit
    \/ FinalBlock
    \/ FinalPool
    \/ Output
    \/ Flatten

SpecTable == Init /\ [][NextTable]_vars

----------------------------------------------------------------------------
(* Vocabulary of the properties *)

NamedVariants ==
    {"mobilenetv2_w1", "mobilenetv2_w3d4", "mobilenetv2_wd2", "mobilenetv2_wd4"}

Built == pc \notin {"start", "ValueError"}
Called == pc \in {"units", "final_pool", "output", "flatten", "done", "pool_error"}
Named == pc # "start" /\ call.fn \in NamedVariants
DefaultArgs ==
    Built /\ TheNet.in_channels = 3 /\ TheNet.classes = 1000

\* _test: np.sum([np.prod(v.get_shape().as_list()) for v in tf.trainable_variables()])
\* (summed by halves, which keeps the evaluation shallow)
RECURSIVE WeightsIn(_, _, _)
WeightsIn(layers, lo, hi) ==
    IF lo > hi THEN 0
    ELSE IF lo = hi THEN layers[lo].weights
    ELSE LET half == (lo + hi) \div 2
         IN  WeightsIn(layers, lo, half) + WeightsIn(layers, half + 1, hi)

weight_count(layers) == WeightsIn(layers, 1, Len(layers))

HasOp(name) == \E k \in 1..Len(ops) : ops[k].name = name
IndexOf(name) == CHOOSE k \in 1..Len(ops) : ops[k].name = name
OpNamed(name) == ops[IndexOf(name)]
UnitName(i, j) == "features/stage" \o ToString(i) \o "/unit" \o ToString(j)

\* The channel table of the width-1.0 model.
W1Channels ==
    << <<16>>, <<24, 24>>, <<32, 32, 32>>,
       <<64, 64, 64, 64, 96, 96, 96>>, <<160, 160, 160, 320>> >>

----------------------------------------------------------------------------
(* C1 *)

C1_Case ==
    /\ Called
    /\ Named
    /\ DefaultArgs
    /\ x0[2] = 3 /\ x0[3] = 224 /\ x0[4] = 224

\* C1: each of the four named variants, built with in_channels=3 and
\* classes=1000 on an (N, 3, 224, 224) input, is pooled to a 1x1 map by the
\* 7x7 average pooling and returns a tensor of shape (N, 1000).
C1_OutputShape ==
    C1_Case =>
        /\ pc # "pool_error"
        /\ HasOp("features/final_pool") =>
              /\ OpNamed("features/final_pool").x[3] = 7
              /\ OpNamed("features/final_pool").x[4] = 7
              /\ OpNamed("features/final_pool").y[3] = 1
              /\ OpNamed("features/final_pool").y[4] = 1
        /\ pc = "done" => x = <<x0[1], 1000>>

C1_Witness ==
    C1_Case /\ pc = "done" /\ call.fn = "mobilenetv2_wd4" /\ x = <<2, 1000>>

----------------------------------------------------------------------------
(* C2 *)

ExpectedWeightCount ==
    [f \in NamedVariants |->
        CASE f = "mobilenetv2_w1"   -> 3504960
          [] f = "mobilenetv2_w3d4" -> 2627592
          [] f = "mobilenetv2_wd2"  -> 1964736
          [] f = "mobilenetv2_wd4"  -> 1516392]

\* C2: the graph built by each named variant with classes=1000 and
\* in_channels=3 holds exactly 3504960 (w1), 2627592 (w3d4), 1964736 (wd2)
\* and 1516392 (wd4) trainable parameters.
C2_WeightCount ==
    (pc = "done" /\ Named /\ DefaultArgs) =>
        weight_count(ops) = ExpectedWeightCount[call.fn]

C2_Witness ==
    /\ pc = "done" /\ Named /\ DefaultArgs
    /\ call.fn = "mobilenetv2_w3d4"
    /\ weight_count(ops) = 2627592

----------------------------------------------------------------------------
(* C3 *)

\* C3: get_mobilenetv2 with pretrained=True and a None or empty model_name
\* raises ValueError without any download; with pretrained=False it
\* downloads nothing and leaves state_dict and file_path None; with
\* pretrained=True and a non-empty model_name both fields come from one
\* download_state_dict call; the named variants never raise ValueError.
C3_Pretrained ==
    pc # "start" =>
        /\ (call.pretrained /\ call.model_name \in {None, <<"">>}) =>
              (pc = "ValueError" /\ downloads = <<>> /\ net = None)
        /\ pc = "ValueError" =>
              (call.pretrained /\ call.model_name \in {None, <<"">>})
        /\ ~call.pretrained =>
              /\ downloads = <<>>
              /\ Built
              /\ TheNet.state_dict = None
              /\ TheNet.file_path = None
        /\ (call.pretrained /\ call.model_name \notin {None, <<"">>}) =>
              /\ Built
              /\ downloads = <<[model_name |-> call.model_name,
                                root |-> DefaultRoot]>>
              /\ TheNet.state_dict # None
              /\ TheNet.file_path # None
              /\ <<TheNet.state_dict[1], TheNet.file_path[1]>>
                    = download_state_dict(call.model_name, DefaultRoot)
        /\ call.fn \in NamedVariants =>
              (pc # "ValueError" /\ call.model_name = <<call.fn>>)

C3_Witness ==
    pc = "ValueError" /\ call.pretrained /\ call.model_name = <<"">>

----------------------------------------------------------------------------
(* C4 *)

\* k = floor(c * s) for the scale s = num / den
IsFloorOf(k, c, s) == k * s[2] <= c * s[1] /\ c * s[1] < (k + 1) * s[2]

\* C4: the width scale multiplies the channel counts: every per-unit
\* channel count and init_block_channels of a built model are floor(c * s)
\* of the width-1.0 values (unchanged for s = 1.0); final_block_channels is
\* scaled only when s > 1.0, so it is 1280 for the four named variants.
C4_WidthScale ==
    (Built /\ call.fn # "MobileNetV2") =>
        LET s == call.width_scale
        IN  /\ Len(TheNet.channels) = Len(W1Channels)
            /\ \A i \in 1..Len(W1Channels) :
                  /\ Len(TheNet.channels[i]) = Len(W1Channels[i])
                  /\ \A j \in 1..Len(W1Channels[i]) :
                        IsFloorOf(TheNet.channels[i][j], W1Channels[i][j], s)
            /\ IsFloorOf(TheNet.init_block_channels, 32, s)
            /\ s = <<1, 1>> =>
                  /\ TheNet.channels = W1Channels
                  /\ TheNet.init_block_channels = 32
            /\ IF s[1] > s[2]
               THEN IsFloorOf(TheNet.final_block_channels, 1280, s)
               ELSE TheNet.final_block_channels = 1280
            /\ Named =>
                  /\ TheNet.final_block_channels = 1280
                  /\ s \in {<<1, 1>>, <<3, 4>>, <<1, 2>>, <<1, 4>>}

C4_Witness ==
    /\ Built /\ call.fn = "mobilenetv2_w3d4"
    /\ TheNet.channels[4] = <<48, 48, 48, 48, 72, 72, 72>>
    /\ TheNet.init_block_channels = 24
    /\ TheNet.final_block_channels = 1280

----------------------------------------------------------------------------
(* C5 *)

RECURSIVE Sum(_)
Sum(seq) == IF seq = <<>> THEN 0 ELSE Head(seq) + Sum(Tail(seq))

RECURSIVE Concat(_)
Concat(seqs) == IF seqs = <<>> THEN <<>> ELSE Head(seqs) \o Concat(Tail(seqs))

\* C5: the fold over (channels_per_layers, layers, downsample) yields, for
\* width 1.0, exactly [[16], [24,24], [32,32,32], [64,64,64,64,96,96,96],
\* [160,160,160,320]]: 5 stages (1 + the number of downsample flags equal
\* to 1), none empty, 17 units in total, and the stages concatenated list
\* each channels_per_layers[k] repeated layers[k] times in order.
C5_Fold ==
    (Built /\ call.fn # "MobileNetV2") =>
        /\ Len(TheNet.channels) = 5
        /\ Len(TheNet.channels)
              = 1 + Cardinality({k \in 1..Len(Downsample) : Downsample[k] = 1})
        /\ \A i \in 1..Len(TheNet.channels) : Len(TheNet.channels[i]) > 0
        /\ Len(Concat(TheNet.channels)) = 17
        /\ Len(Concat(TheNet.channels)) = Sum(Layers)
        /\ call.width_scale = <<1, 1>> =>
              /\ TheNet.channels =
                    << <<16>>, <<24, 24>>, <<32, 32, 32>>,
                       <<64, 64, 64, 64, 96, 96, 96>>, <<160, 160, 160, 320>> >>
              /\ Concat(TheNet.channels) =
                    Concat([k \in 1..Len(Layers) |->
                               [m \in 1..Layers[k] |-> ChannelsPerLayers[k]]])

C5_Witness ==
    /\ pc = "net" /\ call.fn = "mobilenetv2_w1"
    /\ TheNet.channels[4] = <<64, 64, 64, 64, 96, 96, 96>>

----------------------------------------------------------------------------
(* C6 *)

PastUnits == pc \in {"final_pool", "output", "flatten", "done", "pool_error"}

\* The convolutions the stride schedule gives stride 2.
Stride2Names ==
    {"features/init_block/conv"}
    \cup {UnitName(i, 1) \o "/conv2/conv" : i \in 2..Len(TheNet.channels)}

\* k = ceil(h / 32)
IsCeilDiv32(k, h) == 32 * (k - 1) < h /\ h <= 32 * k

\* The extent (dimension d) of the tensor layer `name` receives.
ExtentAt(name, d) == OpNamed(name).x[d]

\* C6: the init block and the first unit of every stage but the first
\* use stride 2, every other convolution stride 1; the 5-stage table has
\* exactly 5 stride-2 convolutions, reduces the input 32 times, and takes
\* 224x224 to 112, 112, 56, 28, 14, 7 after the init block and stages 1..5.
C6_StrideSchedule ==
    Called =>
        /\ \A k \in 1..Len(ops) :
              ops[k].op = "conv2d" =>
                  ops[k].strides =
                      IF ops[k].name \in Stride2Names THEN 2 ELSE 1
        /\ PastUnits =>
              /\ Cardinality({k \in 1..Len(ops) :
                     ops[k].op = "conv2d" /\ ops[k].strides = 2}) = 5
              /\ \A d \in {3, 4} :
                    IsCeilDiv32(ExtentAt("features/final_block/conv", d), x0[d])
        /\ \A d \in {3, 4} :
              x0[d] = 224 =>
                  /\ \A i \in 1..5 :
                        HasOp(UnitName(i, 1) \o "/conv1/conv") =>
                            ExtentAt(UnitName(i, 1) \o "/conv1/conv", d)
                                = <<112, 112, 56, 28, 14>>[i]
                  /\ HasOp("features/final_block/conv") =>
                        ExtentAt("features/final_block/conv", d) = 7
                  /\ HasOp("features/final_pool") =>
                        ExtentAt("features/final_pool", d) = 7

C6_Witness ==
    /\ pc = "done"
    /\ x0[3] = 224 /\ x0[4] = 224
    /\ OpNamed("features/stage4/unit1/conv2/conv").strides = 2
    /\ OpNamed("features/stage4/unit5/conv2/conv").strides = 1
    /\ ExtentAt("features/stage5/unit1/conv1/conv", 3) = 14
    /\ ExtentAt("features/final_pool", 3) = 7

----------------------------------------------------------------------------
(* C7 *)

\* The units whose layers have been emitted, as 1-based (stage, unit).
DoneUnits == {<<Order[t][1] + 1, Order[t][2] + 1>> : t \in 1..u}

ShortcutUnits ==
    {<<2, 2>>, <<3, 2>>, <<3, 3>>, <<4, 2>>, <<4, 3>>, <<4, 4>>,
     <<4, 6>>, <<4, 7>>, <<5, 2>>, <<5, 3>>}

HasShortcut(i, j) == HasOp(UnitName(i, j) \o "/add")

\* C7: a unit adds the shortcut (branch + input) iff its in_channels equal
\* its out_channels and its stride is 1; in the four named variants that is
\* exactly stage 2 unit 2, stage 3 units 2-3, stage 4 units 2-4 and 6-7 and
\* stage 5 units 2-3: 10 of the 17 units.
C7_Residual ==
    Called =>
        /\ \A p \in DoneUnits :
              LET n     == UnitName(p[1], p[2])
                  conv1 == OpNamed(n \o "/conv1/conv")
                  conv2 == OpNamed(n \o "/conv2/conv")
                  conv3 == OpNamed(n \o "/conv3/conv")
                  last  == IndexOf(n \o "/conv3/bn")
              IN  /\ HasShortcut(p[1], p[2]) <=>
                        (conv1.in_channels = conv3.out_channels
                         /\ conv2.strides = 1)
                  /\ IF HasShortcut(p[1], p[2])
                     THEN /\ ops[last + 1].name = n \o "/add"
                          /\ ops[last + 1].x = ops[last].y
                          /\ ops[last + 1].identity = conv1.x
                     ELSE last < Len(ops) => ops[last + 1].x = ops[last].y
                  /\ Named => (HasShortcut(p[1], p[2]) <=> p \in ShortcutUnits)
        /\ (Named /\ PastUnits) =>
              /\ Cardinality(DoneUnits) = 17
              /\ {p \in DoneUnits : HasShortcut(p[1], p[2])} = ShortcutUnits
              /\ Cardinality({k \in 1..Len(ops) : ops[k].op = "add"}) = 10

C7_Witness ==
    /\ pc = "done" /\ call.fn = "mobilenetv2_wd2"
    /\ HasShortcut(4, 7) /\ ~HasShortcut(4, 5) /\ ~HasShortcut(1, 1)
    /\ ~HasShortcut(5, 4)

----------------------------------------------------------------------------
(* C8 *)

\* C8: every linear_bottleneck emits, in order, a 1x1 convolution
\* in -> mid with ReLU6, a 3x3 depthwise convolution mid -> mid (groups = mid,
\* padding 1, the unit's stride) with ReLU6 and a 1x1 convolution mid -> out
\* without activation, each followed at once by batch normalization; mid is
\* 6 * in except in unit 1 of stage 1, where it is in.
C8_Bottleneck ==
    Called =>
        /\ \A p \in DoneUnits :
              LET n    == UnitName(p[1], p[2])
                  k    == IndexOf(n \o "/conv1/conv")
                  inc  == ops[k].in_channels
                  outc == TheNet.channels[p[1]][p[2]]
                  mid  == IF p = <<1, 1>> THEN inc ELSE 6 * inc
              IN  /\ [m \in 1..8 |-> ops[k + m - 1].name] =
                        <<n \o "/conv1/conv", n \o "/conv1/bn", n \o "/conv1/activ",
                          n \o "/conv2/conv", n \o "/conv2/bn", n \o "/conv2/activ",
                          n \o "/conv3/conv", n \o "/conv3/bn">>
                  /\ [m \in 1..8 |-> ops[k + m - 1].op] =
                        <<"conv2d", "batchnorm", "relu6",
                          "conv2d", "batchnorm", "relu6",
                          "conv2d", "batchnorm">>
                  /\ ~HasOp(n \o "/conv3/activ")
                  /\ \A m \in 1..7 : ops[k + m].x = ops[k + m - 1].y
                  /\ ops[k].kernel_size = 1 /\ ops[k].groups = 1
                  /\ ops[k].strides = 1 /\ ops[k].padding = 0
                  /\ ops[k].out_channels = mid
                  /\ ops[k + 3].kernel_size = 3 /\ ops[k + 3].padding = 1
                  /\ ops[k + 3].in_channels = mid
                  /\ ops[k + 3].out_channels = mid
                  /\ ops[k + 3].groups = mid
                  /\ ops[k + 3].strides =
                        (IF p[2] = 1 /\ p[1] # 1 THEN 2 ELSE 1)
                  /\ ops[k + 6].kernel_size = 1 /\ ops[k + 6].groups = 1
                  /\ ops[k + 6].strides = 1 /\ ops[k + 6].padding = 0
                  /\ ops[k + 6].in_channels = mid
                  /\ ops[k + 6].out_channels = outc
        /\ PastUnits =>
              Cardinality({p \in DoneUnits :
                  LET c == OpNamed(UnitName(p[1], p[2]) \o "/conv1/conv")
                  IN  c.out_channels = 6 * c.in_channels}) = 16

C8_Witness ==
    /\ pc = "done" /\ call.fn = "mobilenetv2_w1"
    /\ OpNamed("features/stage1/unit1/conv2/conv").groups = 32
    /\ OpNamed("features/stage2/unit1/conv2/conv").groups = 96
    /\ OpNamed("features/stage2/unit1/conv2/conv").strides = 2
    /\ OpNamed("features/stage5/unit4/conv3/conv").out_channels = 320

----------------------------------------------------------------------------
(* C9 *)

\* The conv1 and conv3 convolutions of the t-th unit in loop order.
Conv1Of(t) ==
    OpNamed(UnitName(Order[t][1] + 1, Order[t][2] + 1) \o "/conv1/conv")
Conv3Of(t) ==
    OpNamed(UnitName(Order[t][1] + 1, Order[t][2] + 1) \o "/conv3/conv")

\* C9: for any channel table, every emitted layer is given as in_channels
\* the channel count of the tensor it receives (a unit's is the previous
\* unit's out_channels, the first unit's init_block_channels, the final
\* block's the last unit's out_channels, the output convolution's
\* final_block_channels), every depthwise convolution has in_channels =
\* out_channels = groups, and the summands of a shortcut have the same shape.
C9_ShapeConsistency ==
    Called =>
        /\ ops[1].x = x0
        /\ \A k \in 2..Len(ops) : ops[k].x = ops[k - 1].y
        /\ \A k \in 1..Len(ops) :
              /\ ops[k].op = "conv2d" => ops[k].in_channels = ops[k].x[2]
              /\ (ops[k].op = "conv2d" /\ ops[k].kernel_size = 3
                    /\ ops[k].name # "features/init_block/conv") =>
                    /\ ops[k].in_channels = ops[k].out_channels
                    /\ ops[k].groups = ops[k].out_channels
              /\ ops[k].op = "add" =>
                    /\ ops[k].x[2] = ops[k].identity[2]
                    /\ ops[k].x[3] = ops[k].identity[3]
                    /\ ops[k].x[4] = ops[k].identity[4]
        /\ pc \in {"units", "final_pool", "output"} => in_channels = x[2]
        /\ \A t \in 1..u :
              Conv1Of(t).in_channels =
                  IF t = 1 THEN TheNet.init_block_channels
                  ELSE Conv3Of(t - 1).out_channels
        /\ HasOp("features/final_block/conv") =>
              OpNamed("features/final_block/conv").in_channels =
                  IF u = 0 THEN TheNet.init_block_channels
                  ELSE Conv3Of(u).out_channels
        /\ HasOp("output") =>
              OpNamed("output").in_channels = TheNet.final_block_channels

C9_Witness ==
    /\ pc = "done" /\ call.fn = "MobileNetV2"
    /\ TheNet.channels = << <<1, 2>>, <<2, 2>> >>
    /\ TheNet.init_block_channels = 1
    /\ HasOp("features/stage1/unit1/add")
    /\ HasOp("features/stage2/unit2/add")
    /\ OpNamed("features/stage2/unit1/conv1/conv").in_channels = 2

----------------------------------------------------------------------------
(* C10 *)

\* ceil(h / 32)
CeilDiv32(h) == CHOOSE k \in 0..h : IsCeilDiv32(k, h)

\* C10: in_size plays no part in the graph: the final pooling window is 7
\* with stride 1 whatever in_size is, so an H x W input yields
\* (ceil(H/32) - 6) * (ceil(W/32) - 6) * classes columns, which is `classes`
\* iff ceil(H/32) = ceil(W/32) = 7 (H and W in 193..224), and a final map
\* smaller than 7x7 cannot be pooled.
C10_FixedPool ==
    Called =>
        LET ch == CeilDiv32(x0[3])
            cw == CeilDiv32(x0[4])
        IN  /\ HasOp("features/final_pool") =>
                  /\ OpNamed("features/final_pool").pool_size = 7
                  /\ OpNamed("features/final_pool").strides = 1
            /\ pc = "pool_error" => (ch < 7 \/ cw < 7)
            /\ (PastUnits /\ pc # "final_pool" /\ (ch < 7 \/ cw < 7)) =>
                  pc = "pool_error"
            /\ pc = "done" =>
                  /\ x = <<x0[1], (ch - 6) * (cw - 6) * TheNet.classes>>
                  /\ (x[2] = TheNet.classes) <=> (ch = 7 /\ cw = 7)
                  /\ (x[2] = TheNet.classes) <=>
                        (x0[3] \in 193..224 /\ x0[4] \in 193..224)

C10_Witness ==
    /\ pc = "done"
    /\ TheNet.in_size = <<256, 256>>
    /\ TheNet.classes = 1000
    /\ x0 = <<1, 3, 256, 256>>
    /\ x = <<1, 4000>>

====
